---- MODULE Spec2Model ----
(***************************************************************************)
(* Blitter_32bppSSE_Base::Encode (src/src/blitter/32bpp_sse2.cpp): packs   *)
(* the decoded sprites of a zoom range into one buffer: per zoom level a   *)
(* block of rows [left run-count:u32][right run-count:u32][colour cells]   *)
(* followed by a block of map-value cells, behind a SpriteData header.     *)
(*                                                                         *)
(* The buffer is modelled byte by byte.  A byte the allocator handed out   *)
(* and nobody wrote yet is Uninit.  The decoded sprite collection is       *)
(* read-only input: each of its records enters the state at the step that  *)
(* first reads it.                                                         *)
(***************************************************************************)
EXTENDS Integers, Sequences, FiniteSets

(* ----------------------------- bounds ---------------------------------- *)
\* Highest zoom level of the model (levels are ZoomLevelMin..ZoomLevelMax).
ZoomLevelMax == 1
\* Largest width and height of a decoded sprite.
MaxWidth == 2
MaxHeight == 2
\* Largest number of decoded pixels over all zoom levels of one collection.
MaxPixels == 2

(* ------------------------ program constants ---------------------------- *)
ZoomLevelMin == 0
META_LENGTH == 2
SizeofColour == 4
SizeofUint32 == 4
SizeofMapValue == 2
PALETTE_ANIM_START == 227
DEFAULT_BRIGHTNESS == 128

\* Content of a byte that was allocated and never written.
Uninit == -1

ZoomLevels == ZoomLevelMin..ZoomLevelMax
SpriteTypes == {"Normal", "Font"}

\* Byte offsets of the channels inside a colour cell, of the fields inside a
\* map-value cell.
OffR == 0
OffG == 1
OffB == 2
OffA == 3
OffM == 0
OffV == 1

(* ------------------------------ inputs --------------------------------- *)
\* SpriteLoader::CommonPixel records the loader may hand over.
Pixel(r, g, b, a, m) == [r |-> r, g |-> g, b |-> b, a |-> a, m |-> m]
PixelSet ==
    { Pixel(0, 0, 0, 0, 0),          \* transparent
      Pixel(10, 20, 30, 0, 227),     \* transparent, carries an animated index
      Pixel(10, 20, 30, 255, 0),     \* opaque, no recolour
      Pixel(30, 10, 20, 128, 226),   \* translucent, recoloured, not animated
      Pixel(0, 0, 0, 255, 227) }     \* opaque, black, animated index

\* Origin offsets of the root sprite.
OffsetSet == { <<-3, 5>> }

NoSprite == [width |-> 0, height |-> 0, x_offs |-> 0, y_offs |-> 0, data |-> <<>>]

(* ------------------------- pure helpers -------------------------------- *)
Max2(a, b) == IF a >= b THEN a ELSE b
Min2(a, b) == IF a <= b THEN a ELSE b
Max3(a, b, c) == Max2(a, Max2(b, c))

\* Little-endian bytes of a uint32_t, and back.
Pow256(i) == IF i = 0 THEN 1 ELSE IF i = 1 THEN 256 ELSE IF i = 2 THEN 65536 ELSE 16777216
U32Byte(n, i) == (n \div Pow256(i)) % 256
PutU32(buf, off, n) ==
    [i \in DOMAIN buf |-> IF i \in off..(off + SizeofUint32 - 1) THEN U32Byte(n, i - off) ELSE buf[i]]
GetU32(buf, off) ==
    buf[off] + 256 * buf[off + 1] + 65536 * buf[off + 2] + 16777216 * buf[off + 3]

\* Palette collaborator and brightness adjustment of the colour transform.
LookupColourInPalette(m) == [r |-> m, g |-> (m * 7) % 256, b |-> 255 - m]
AdjustChannel(c, v) == Min2(255, (c * v) \div DEFAULT_BRIGHTNESS)
AdjustBrightneSSE(colour, v) ==
    IF v = DEFAULT_BRIGHTNESS THEN colour
    ELSE [r |-> AdjustChannel(colour.r, v),
          g |-> AdjustChannel(colour.g, v),
          b |-> AdjustChannel(colour.b, v)]

(* ----------------------- the steps of Encode --------------------------- *)
\* Lines 29-35: the zoom range to pack.
ZoomRangeWidenBoth(sprite_type, gui_min, gui_max) ==
    IF sprite_type = "Font" THEN <<ZoomLevelMin, ZoomLevelMin>>
    ELSE IF gui_max = gui_min THEN <<ZoomLevelMin, ZoomLevelMax>>
    ELSE <<gui_min, gui_max>>
ZoomRange(sprite_type, gui_min, gui_max) ==
    IF sprite_type = "Font" THEN <<ZoomLevelMin, ZoomLevelMin>>
    ELSE IF gui_max = gui_min THEN <<gui_min, ZoomLevelMax>>
    ELSE <<gui_min, gui_max>>

\* Line 45.
LineSizeNoMeta(width) == SizeofColour * width
SpriteLineSize(width) == SizeofColour * width + SizeofUint32 * META_LENGTH

\* Line 47.
RgbaSizeOneRow(line_size, height) == line_size
RgbaSize(line_size, height) == line_size * height

\* Line 50.
MvSize(width, height) == SizeofMapValue * width * height

\* Lines 85-86.
BrightnessNoDefault(px) == Max3(px.r, px.g, px.b)
Brightness(px) ==
    LET rgb_max == Max3(px.r, px.g, px.b)
    IN  IF rgb_max = 0 THEN DEFAULT_BRIGHTNESS ELSE rgb_max

\* Lines 75-102: the bytes one source pixel leaves in the buffer.
Put4(buf, off, b0, b1, b2, b3) ==
    [i \in DOMAIN buf |->
        IF i = off THEN b0 ELSE IF i = off + 1 THEN b1
        ELSE IF i = off + 2 THEN b2 ELSE IF i = off + 3 THEN b3 ELSE buf[i]]
PutColour(buf, off, r, g, b, a) ==
    [i \in DOMAIN buf |->
        IF i = off + OffR THEN r ELSE IF i = off + OffG THEN g
        ELSE IF i = off + OffB THEN b ELSE IF i = off + OffA THEN a ELSE buf[i]]
PutMapValue(buf, off, m, v) ==
    [i \in DOMAIN buf |->
        IF i = off + OffM THEN m ELSE IF i = off + OffV THEN v ELSE buf[i]]

EncodePixelKeepMap(buf, dst_rgba, dst_mv, px) ==
    IF px.a # 0 THEN
        IF px.m # 0 THEN
            LET v == Brightness(px)
                colour == AdjustBrightneSSE(LookupColourInPalette(px.m), v)
            IN  PutMapValue(PutColour(buf, dst_rgba, colour.r, colour.g, colour.b, px.a),
                            dst_mv, px.m, v)
        ELSE
            PutMapValue(PutColour(buf, dst_rgba, px.r, px.g, px.b, px.a),
                        dst_mv, px.m, DEFAULT_BRIGHTNESS)
    ELSE
        PutMapValue(Put4(buf, dst_rgba, 0, 0, 0, 0), dst_mv, px.m, 0)
EncodePixelSkipMap(buf, dst_rgba, dst_mv, px) ==
    IF px.a # 0 THEN
        IF px.m # 0 THEN
            LET v == Brightness(px)
                colour == AdjustBrightneSSE(LookupColourInPalette(px.m), v)
            IN  PutMapValue(PutColour(buf, dst_rgba, colour.r, colour.g, colour.b, px.a),
                            dst_mv, px.m, v)
        ELSE
            PutMapValue(PutColour(buf, dst_rgba, px.r, px.g, px.b, px.a),
                        dst_mv, px.m, DEFAULT_BRIGHTNESS)
    ELSE
        Put4(buf, dst_rgba, 0, 0, 0, 0)
EncodePixelBrightnessAlways(buf, dst_rgba, dst_mv, px) ==
    IF px.a # 0 THEN
        IF px.m # 0 THEN
            LET v == Brightness(px)
                colour == AdjustBrightneSSE(LookupColourInPalette(px.m), v)
            IN  PutMapValue(PutColour(buf, dst_rgba, colour.r, colour.g, colour.b, px.a),
                            dst_mv, px.m, v)
        ELSE
            PutMapValue(PutColour(buf, dst_rgba, px.r, px.g, px.b, px.a),
                        dst_mv, px.m, Brightness(px))
    ELSE
        PutMapValue(Put4(buf, dst_rgba, 0, 0, 0, 0), dst_mv, 0, 0)
EncodePixel(buf, dst_rgba, dst_mv, px) ==
    IF px.a # 0 THEN
        IF px.m # 0 THEN
            LET v == Brightness(px)
                colour == AdjustBrightneSSE(LookupColourInPalette(px.m), v)
            IN  PutMapValue(PutColour(buf, dst_rgba, colour.r, colour.g, colour.b, px.a),
                            dst_mv, px.m, v)
        ELSE
            PutMapValue(PutColour(buf, dst_rgba, px.r, px.g, px.b, px.a),
                        dst_mv, px.m, DEFAULT_BRIGHTNESS)
    ELSE
        PutMapValue(Put4(buf, dst_rgba, 0, 0, 0, 0), dst_mv, 0, 0)

\* Line 77.
ObserveTranslucencyNoZeroTest(seen, px) == seen \/ (px.a # 255)
ObserveTranslucency(seen, px) == seen \/ (px.a # 0 /\ px.a # 0 /\ px.a # 255)

\* Lines 75, 79-81.
ObserveRemapAnyAlpha(seen, px) == seen \/ (px.m # 0)
ObserveRemap(seen, px) == seen \/ (px.a # 0 /\ px.m # 0)

\* Lines 75, 79, 82.
ObserveAnimStrict(seen, px) == seen \/ (px.a # 0 /\ px.m # 0 /\ px.m > PALETTE_ANIM_START)
ObserveAnim(seen, px) == seen \/ (px.a # 0 /\ px.m # 0 /\ px.m >= PALETTE_ANIM_START)

\* Lines 110-115 and 123-128: the counting loop, from cell p in steps of
\* step bytes, x cells left to look at.  The result is a set: the test of an
\* alpha byte that was never written can go either way.
RECURSIVE CountTransparentNoBreak(_, _, _, _, _)
CountTransparentNoBreak(buf, p, step, x, nb) ==
    IF x = 0 THEN {nb}
    ELSE LET a == buf[p + OffA]
         IN  (IF a = 0 \/ a = Uninit
              THEN CountTransparentNoBreak(buf, p + step, step, x - 1, nb + 1) ELSE {})
             \cup
             (IF a # 0
              THEN CountTransparentNoBreak(buf, p + step, step, x - 1, nb) ELSE {})
RECURSIVE CountTransparent(_, _, _, _, _)
CountTransparent(buf, p, step, x, nb) ==
    IF x = 0 THEN {nb}
    ELSE LET a == buf[p + OffA]
         IN  (IF a = 0 \/ a = Uninit
              THEN CountTransparent(buf, p + step, step, x - 1, nb + 1) ELSE {})
             \cup
             (IF a # 0 THEN {nb} ELSE {})

\* Lines 134-137.
SpriteFlags(has_translucency, has_remap, has_anim) ==
    (IF has_translucency THEN {"Translucent"} ELSE {})
    \cup (IF ~has_remap THEN {"NoRemap"} ELSE {})
    \cup (IF ~has_anim THEN {"NoAnim"} ELSE {})

(* ------------------------------ state ---------------------------------- *)
VARIABLES
    sprite_type,      \* argument: SpriteType of the sprite
    gui_zoom_min,     \* _settings_client.gui.zoom_min
    gui_zoom_max,     \* _settings_client.gui.zoom_max
    sprite,           \* argument: the decoded collection, as far as read
    zoom_min, zoom_max,
    z,                \* loop variable of the current loop over zoom levels
    sd,               \* local SpriteData: flags and infos
    all_sprites_size,
    dst_sprite,       \* the allocated Sprite: fields, header copy, payload
    has_remap, has_anim, has_translucency,
    y, x,             \* rows and pixels still to go
    dst_rgba_line, dst_rgba, dst_mv,   \* byte offsets into the payload
    pc

vars == <<sprite_type, gui_zoom_min, gui_zoom_max, sprite, zoom_min, zoom_max, z, sd,
          all_sprites_size, dst_sprite, has_remap, has_anim, has_translucency,
          y, x, dst_rgba_line, dst_rgba, dst_mv, pc>>

input == <<sprite_type, gui_zoom_min, gui_zoom_max>>
flagvars == <<has_remap, has_anim, has_translucency>>
ptrs == <<dst_rgba_line, dst_rgba, dst_mv>>

ZeroInfo == [sprite_width |-> 0, sprite_offset |-> 0, mv_offset |-> 0, sprite_line_size |-> 0]
ZeroSpriteData == [flags |-> {}, infos |-> [l \in ZoomLevels |-> ZeroInfo]]

\* A header nobody wrote yet.
UninitInfo == [sprite_width |-> Uninit, sprite_offset |-> Uninit, mv_offset |-> Uninit,
               sprite_line_size |-> Uninit]
UninitSpriteData == [flags |-> {"Uninit"}, infos |-> [l \in ZoomLevels |-> UninitInfo]]

\* Before the call: the configuration holds zoom_min <= zoom_max, nothing is
\* allocated, and the locals hold whatever the stack held.
Init ==
    /\ sprite_type \in SpriteTypes
    /\ gui_zoom_min \in ZoomLevels
    /\ gui_zoom_max \in ZoomLevels
    /\ gui_zoom_min <= gui_zoom_max
    /\ sprite = [l \in ZoomLevels |-> NoSprite]
    /\ zoom_min = ZoomLevelMin
    /\ zoom_max = ZoomLevelMin
    /\ z = ZoomLevelMin
    /\ sd = ZeroSpriteData
    /\ all_sprites_size = 0
    /\ dst_sprite = [height |-> Uninit, width |-> Uninit, x_offs |-> Uninit, y_offs |-> Uninit,
                     sd |-> UninitSpriteData, data |-> <<>>]
    /\ \E stale \in BOOLEAN :
          /\ has_remap = stale
          /\ has_anim = stale
          /\ has_translucency = stale
    /\ y = 0
    /\ x = 0
    /\ dst_rgba_line = 0
    /\ dst_rgba = 0
    /\ dst_mv = 0
    /\ pc = "start"

\* Number of pixels the levels read so far announce.
RECURSIVE AreaUpTo(_, _)
AreaUpTo(spr, l) ==
    IF l < ZoomLevelMin THEN 0
    ELSE spr[l].width * spr[l].height + AreaUpTo(spr, l - 1)

\* Lines 29-39.
SelectZoom ==
    /\ pc = "start"
    /\ LET range == ZoomRange(sprite_type, gui_zoom_min, gui_zoom_max)
       IN  /\ zoom_min' = range[1]
           /\ zoom_max' = range[2]
           /\ z' = range[1]
    /\ sd' = ZeroSpriteData
    /\ all_sprites_size' = 0
    /\ pc' = "layout"
    /\ UNCHANGED <<input, sprite, dst_sprite, flagvars, y, x, ptrs>>

\* Lines 40-52, one iteration.
LayoutLevel ==
    /\ pc = "layout"
    /\ z <= zoom_max
    /\ \E w \in 0..MaxWidth, h \in 0..MaxHeight :
          /\ AreaUpTo(sprite, ZoomLevelMax) + w * h <= MaxPixels
          /\ LET line_size == SpriteLineSize(w)
                 rgba_size == RgbaSize(line_size, h)
                 mv_size == MvSize(w, h)
             IN  /\ sprite' = [sprite EXCEPT ![z].width = w, ![z].height = h]
                 /\ sd' = [sd EXCEPT !.infos[z] =
                             [sprite_width |-> w,
                              sprite_offset |-> all_sprites_size,
                              mv_offset |-> all_sprites_size + rgba_size,
                              sprite_line_size |-> line_size]]
                 /\ all_sprites_size' = all_sprites_size + rgba_size + mv_size
    /\ z' = z + 1
    /\ UNCHANGED <<input, zoom_min, zoom_max, dst_sprite, flagvars, y, x, ptrs, pc>>

\* Lines 54-66: allocate, fill in the Sprite fields from the root sprite,
\* copy the header, reset the flag accumulators.
Allocate ==
    /\ pc = "layout"
    /\ z > zoom_max
    /\ \E w \in 0..MaxWidth, h \in 0..MaxHeight, offs \in OffsetSet :
          \* the root sprite's size is already known when its level was laid out
          /\ zoom_min = ZoomLevelMin =>
                (w = sprite[ZoomLevelMin].width /\ h = sprite[ZoomLevelMin].height)
          /\ zoom_min # ZoomLevelMin => AreaUpTo(sprite, ZoomLevelMax) + w * h <= MaxPixels
          /\ sprite' = [sprite EXCEPT ![ZoomLevelMin].width = w,
                                      ![ZoomLevelMin].height = h,
                                      ![ZoomLevelMin].x_offs = offs[1],
                                      ![ZoomLevelMin].y_offs = offs[2]]
          /\ dst_sprite' = [height |-> h, width |-> w, x_offs |-> offs[1], y_offs |-> offs[2],
                            sd |-> sd,
                            data |-> [i \in 0..(all_sprites_size - 1) |-> Uninit]]
    /\ has_remap' = FALSE
    /\ has_anim' = FALSE
    /\ has_translucency' = FALSE
    /\ z' = zoom_min
    /\ pc' = "level"
    /\ UNCHANGED <<input, zoom_min, zoom_max, sd, all_sprites_size, y, x, ptrs>>

\* Lines 66-72: enter a zoom level.
BeginLevel ==
    /\ pc = "level"
    /\ z <= zoom_max
    /\ dst_rgba_line' = sd.infos[z].sprite_offset
    /\ dst_mv' = sd.infos[z].mv_offset
    /\ y' = sprite[z].height
    /\ pc' = "row"
    /\ UNCHANGED <<input, sprite, zoom_min, zoom_max, z, sd, all_sprites_size, dst_sprite,
                   flagvars, x, dst_rgba>>

\* Lines 72-74: enter a row.
BeginRow ==
    /\ pc = "row"
    /\ y # 0
    /\ dst_rgba' = dst_rgba_line + SizeofColour * META_LENGTH
    /\ x' = sprite[z].width
    /\ pc' = "pixel"
    /\ UNCHANGED <<input, sprite, zoom_min, zoom_max, z, sd, all_sprites_size, dst_sprite,
                   flagvars, y, dst_rgba_line, dst_mv>>

\* Lines 74-106, one iteration: pack one source pixel.
PackPixel ==
    /\ pc = "pixel"
    /\ x # 0
    /\ \E px \in PixelSet :
          /\ sprite' = [sprite EXCEPT ![z].data = Append(@, px)]
          /\ dst_sprite' = [dst_sprite EXCEPT !.data = EncodePixel(@, dst_rgba, dst_mv, px)]
          /\ has_translucency' = ObserveTranslucency(has_translucency, px)
          /\ has_remap' = ObserveRemap(has_remap, px)
          /\ has_anim' = ObserveAnim(has_anim, px)
    /\ dst_rgba' = dst_rgba + SizeofColour
    /\ dst_mv' = dst_mv + SizeofMapValue
    /\ x' = x - 1
    /\ UNCHANGED <<input, zoom_min, zoom_max, z, sd, all_sprites_size, y, dst_rgba_line, pc>>

\* Lines 108-130: count the transparent cells from the left and from the
\* right of the row just packed, store both counts, go to the next row.
CountRuns ==
    /\ pc = "pixel"
    /\ x = 0
    /\ LET line_start == dst_rgba_line
           nb_right == dst_rgba_line + SizeofColour
           next_line == dst_rgba_line + sd.infos[z].sprite_line_size
       IN  /\ \E nb_left \in CountTransparent(dst_sprite.data,
                                              line_start + SizeofColour * META_LENGTH,
                                              SizeofColour, sprite[z].width, 0) :
                 LET stored == PutU32(dst_sprite.data, line_start, nb_left)
                 IN  \E nb_pix_transp \in CountTransparent(stored, next_line - SizeofColour,
                                                           -SizeofColour, sprite[z].width, 0) :
                        dst_sprite' = [dst_sprite EXCEPT
                                          !.data = PutU32(stored, nb_right, nb_pix_transp)]
           /\ dst_rgba_line' = next_line
    /\ y' = y - 1
    /\ pc' = "row"
    /\ UNCHANGED <<input, sprite, zoom_min, zoom_max, z, sd, all_sprites_size, flagvars,
                   x, dst_rgba, dst_mv>>

\* Line 66, 131: the level is done.
EndLevel ==
    /\ pc = "row"
    /\ y = 0
    /\ z' = z + 1
    /\ pc' = "level"
    /\ UNCHANGED <<input, sprite, zoom_min, zoom_max, sd, all_sprites_size, dst_sprite,
                   flagvars, y, x, ptrs>>

\* Lines 133-140: store the flags and copy the header again.
StoreFlags ==
    /\ pc = "level"
    /\ z > zoom_max
    /\ LET flags == SpriteFlags(has_translucency, has_remap, has_anim)
       IN  /\ sd' = [sd EXCEPT !.flags = flags]
           /\ dst_sprite' = [dst_sprite EXCEPT !.sd = [sd EXCEPT !.flags = flags]]
    /\ pc' = "done"
    /\ UNCHANGED <<input, sprite, zoom_min, zoom_max, z, all_sprites_size, flagvars,
                   y, x, ptrs>>

Next ==
    \/ SelectZoom
    \/ LayoutLevel
    \/ Allocate
    \/ BeginLevel
    \/ BeginRow
    \/ PackPixel
    \/ CountRuns
    \/ EndLevel
    \/ StoreFlags

Spec == Init /\ [][Next]_vars

(* --------------------- reading the packed sprite ----------------------- *)
\* The buffer exists from Allocate on.
Allocated == pc \in {"level", "row", "pixel", "done"}
Done == pc = "done"

\* Levels the layout loop has been through.
LaidOut == IF pc = "start" THEN {}
           ELSE IF pc = "layout" THEN zoom_min..(z - 1)
           ELSE zoom_min..zoom_max

\* The header as a reader of the packed sprite sees it.
Info(l) == dst_sprite.sd.infos[l]
MetaBytes == SizeofUint32 * META_LENGTH

\* Source pixels of level l packed so far (1-based, row-major), and where the
\* reader finds the cells of the k-th of them.
PackedPixels(l) == 1..Len(sprite[l].data)
RowOf(l, k) == (k - 1) \div Info(l).sprite_width
ColOf(l, k) == (k - 1) % Info(l).sprite_width
LineAt(l, row) == Info(l).sprite_offset + row * Info(l).sprite_line_size
ColourAt(l, k) == LineAt(l, RowOf(l, k)) + MetaBytes + SizeofColour * ColOf(l, k)
MapValueAt(l, k) == Info(l).mv_offset + SizeofMapValue * (k - 1)
Byte(off) == dst_sprite.data[off]

AllSourcePixels ==
    UNION { { sprite[l].data[k] : k \in PackedPixels(l) } : l \in ZoomLevels }

(* ------------------------------ C1 ------------------------------------- *)
\* C1: after Encode, every source pixel with alpha 0 has left an all-zero colour cell and an
\* all-zero map-value cell, whatever its r, g, b and recolour index.
C1_TransparentCellsZero ==
    Done =>
        \A l \in ZoomLevels : \A k \in PackedPixels(l) :
            sprite[l].data[k].a = 0 =>
                /\ \A i \in 0..(SizeofColour - 1) : Byte(ColourAt(l, k) + i) = 0
                /\ \A i \in 0..(SizeofMapValue - 1) : Byte(MapValueAt(l, k) + i) = 0

\* A finished sprite holding a transparent pixel with colour and recolour index.
C1_Witness ==
    /\ Done
    /\ \E px \in AllSourcePixels : px.a = 0 /\ px.m # 0 /\ px.b # 0

(* ------------------------------ C2 ------------------------------------- *)
AlphaOfCell(l, row, i) == Byte(LineAt(l, row) + MetaBytes + SizeofColour * i + OffA)
LeftCount(l, row) == GetU32(dst_sprite.data, LineAt(l, row))
RightCount(l, row) == GetU32(dst_sprite.data, LineAt(l, row) + SizeofUint32)

\* C2: after Encode, in every packed row the left slot is the length of the maximal prefix
\* of zero-alpha cells, the right slot the length of the maximal suffix of
\* zero-alpha cells; a fully transparent row has both equal to its width.
C2_RunCounts ==
    Done => \A l \in zoom_min..zoom_max : \A row \in 0..(sprite[l].height - 1) :
        LET w == Info(l).sprite_width
            left == LeftCount(l, row)
            right == RightCount(l, row)
        IN  /\ left \in 0..w
            /\ \A i \in 0..(left - 1) : AlphaOfCell(l, row, i) = 0
            /\ left < w => AlphaOfCell(l, row, left) # 0
            /\ right \in 0..w
            /\ \A i \in 0..(right - 1) : AlphaOfCell(l, row, w - 1 - i) = 0
            /\ right < w => AlphaOfCell(l, row, w - 1 - right) # 0
            /\ (\A i \in 0..(w - 1) : AlphaOfCell(l, row, i) = 0) => (left = w /\ right = w)
            /\ \A i \in 0..(w - 1) :
                  AlphaOfCell(l, row, i) = sprite[l].data[row * w + i + 1].a

\* A finished row of two cells, transparent then visible: left 1, right 0.
C2_Witness ==
    /\ Done
    /\ \E l \in zoom_min..zoom_max :
          /\ sprite[l].width = 2
          /\ sprite[l].height = 1
          /\ LeftCount(l, 0) = 1
          /\ RightCount(l, 0) = 0

(* ------------------------------ C3 ------------------------------------- *)
\* C3 as claimed: NoRemap is set iff no source pixel at all, transparent ones
\* included, has a nonzero recolour index.
C3_Original ==
    Done => (("NoRemap" \in dst_sprite.sd.flags) <=> (\A px \in AllSourcePixels : px.m = 0))

\* C3 amended: NoRemap is set iff no source pixel with nonzero alpha has a
\* nonzero recolour index.
C3_NoRemap ==
    Done => (("NoRemap" \in dst_sprite.sd.flags)
                <=> (\A px \in AllSourcePixels : px.a # 0 => px.m = 0))

\* NoRemap set although a transparent pixel carries a recolour index.
C3_Witness ==
    /\ Done
    /\ "NoRemap" \in dst_sprite.sd.flags
    /\ \E px \in AllSourcePixels : px.a = 0 /\ px.m # 0

(* ------------------------------ C4 ------------------------------------- *)
\* C4 as claimed: NoAnim is cleared iff some source pixel, whatever its alpha,
\* has a recolour index in the animation sub-range.
C4_Original ==
    Done => (("NoAnim" \notin dst_sprite.sd.flags)
                <=> (\E px \in AllSourcePixels : px.m >= PALETTE_ANIM_START))

\* C4 amended: NoAnim is cleared iff some source pixel with nonzero alpha has a
\* recolour index in the animation sub-range, and is set otherwise.
C4_NoAnim ==
    Done => (("NoAnim" \notin dst_sprite.sd.flags)
                <=> (\E px \in AllSourcePixels : px.a # 0 /\ px.m >= PALETTE_ANIM_START))

\* NoAnim cleared by a visible pixel whose index is the first animated one.
C4_Witness ==
    /\ Done
    /\ "NoAnim" \notin dst_sprite.sd.flags
    /\ \E px \in AllSourcePixels : px.a # 0 /\ px.m = PALETTE_ANIM_START
    /\ \E px \in AllSourcePixels : px.a = 0

(* ------------------------------ C5 ------------------------------------- *)
\* C5: Translucent is set iff some source pixel has 0 < alpha < 255, whatever
\* the accumulators held before the call.
C5_Translucent ==
    Done => (("Translucent" \in dst_sprite.sd.flags)
                <=> (\E px \in AllSourcePixels : 0 < px.a /\ px.a < 255))

\* A finished sprite of a transparent and an opaque pixel: not translucent.
C5_Witness ==
    /\ Done
    /\ "Translucent" \notin dst_sprite.sd.flags
    /\ \E px \in AllSourcePixels : px.a = 0
    /\ \E px \in AllSourcePixels : px.a = 255

(* ------------------------------ C6 ------------------------------------- *)
ExpectedBrightness(px) ==
    IF px.r = 0 /\ px.g = 0 /\ px.b = 0 THEN DEFAULT_BRIGHTNESS
    ELSE CHOOSE c \in {px.r, px.g, px.b} : \A d \in {px.r, px.g, px.b} : d <= c

\* C6 as claimed: every source pixel with a nonzero recolour index has
\* brightness max(r,g,b), or DEFAULT_BRIGHTNESS when that is 0.
C6_Original ==
    Done =>
        \A l \in ZoomLevels : \A k \in PackedPixels(l) :
            sprite[l].data[k].m # 0 =>
                Byte(MapValueAt(l, k) + OffV) = ExpectedBrightness(sprite[l].data[k])

\* C6 amended: every source pixel with nonzero alpha and a nonzero recolour
\* index has brightness max(r,g,b), or DEFAULT_BRIGHTNESS when that is 0.
C6_Brightness ==
    Done =>
        \A l \in ZoomLevels : \A k \in PackedPixels(l) :
            (sprite[l].data[k].a # 0 /\ sprite[l].data[k].m # 0) =>
                Byte(MapValueAt(l, k) + OffV) = ExpectedBrightness(sprite[l].data[k])

\* A black recoloured pixel got the default, a coloured one its maximum.
C6_Witness ==
    /\ Done
    /\ \E l \in ZoomLevels : \E k \in PackedPixels(l) :
          LET px == sprite[l].data[k]
          IN  px.a # 0 /\ px.m # 0 /\ px.r = 0 /\ px.g = 0 /\ px.b = 0
              /\ Byte(MapValueAt(l, k) + OffV) = DEFAULT_BRIGHTNESS
    /\ \E l \in ZoomLevels : \E k \in PackedPixels(l) :
          LET px == sprite[l].data[k]
          IN  px.a # 0 /\ px.m # 0 /\ px.r = 30
              /\ Byte(MapValueAt(l, k) + OffV) = 30

(* ------------------------------ C7 ------------------------------------- *)
\* The header the layout loop has planned, and what follows level l in it.
Planned(l) == sd.infos[l]
\* The layout loop is through and packing has not begun, or Encode is through.
LayoutComplete == (pc = "layout" /\ z > zoom_max) \/ Done
OffsetAfter(l) ==
    IF l + 1 \in LaidOut THEN Planned(l + 1).sprite_offset ELSE all_sprites_size
\* The regions [start, end) the header gives level l.
PayloadStart(l) == Planned(l).sprite_offset
PayloadEnd(l) == Planned(l).sprite_offset + Planned(l).sprite_line_size * sprite[l].height
MapValueStart(l) == Planned(l).mv_offset
MapValueEnd(l) == Planned(l).mv_offset + SizeofMapValue * Planned(l).sprite_width * sprite[l].height
\* Two byte ranges [a1, b1) and [a2, b2) share no byte.
Disjoint(a1, b1, a2, b2) == \A i \in a1..(b1 - 1) : i \notin a2..(b2 - 1)

\* C7: levels are laid out low to high; level l gets the payload region
\* [sprite_offset, sprite_offset + (8 + 4*width)*height) immediately followed
\* by the map-value region [mv_offset, mv_offset + 2*width*height); the regions
\* of all levels are pairwise disjoint, offsets do not decrease in zoom order,
\* and the total size is the end of the last level's map-value region.
C7_Layout ==
    LayoutComplete =>
        /\ \A l \in LaidOut :
              LET w == sprite[l].width
                  h == sprite[l].height
              IN  /\ Planned(l).sprite_width = w
                  /\ Planned(l).sprite_line_size = 8 + 4 * w
                  /\ Planned(l).mv_offset = Planned(l).sprite_offset + (8 + 4 * w) * h
                  /\ OffsetAfter(l) = Planned(l).mv_offset + 2 * w * h
                  /\ l = zoom_min => Planned(l).sprite_offset = 0
                  /\ h > 0 => Planned(l).sprite_offset < OffsetAfter(l)
        /\ \A l1, l2 \in LaidOut :
              /\ Disjoint(PayloadStart(l1), PayloadEnd(l1), MapValueStart(l2), MapValueEnd(l2))
              /\ l1 # l2 =>
                    /\ Disjoint(PayloadStart(l1), PayloadEnd(l1), PayloadStart(l2), PayloadEnd(l2))
                    /\ Disjoint(MapValueStart(l1), MapValueEnd(l1),
                                MapValueStart(l2), MapValueEnd(l2))
              /\ l1 < l2 => /\ Planned(l1).sprite_offset <= Planned(l2).sprite_offset
                            /\ Planned(l1).mv_offset <= Planned(l2).mv_offset
        /\ all_sprites_size = MapValueEnd(zoom_max)
        /\ Allocated => DOMAIN dst_sprite.data = 0..(all_sprites_size - 1)

\* Two levels with pixels, laid out one behind the other.
C7_Witness ==
    /\ Done
    /\ \E l1, l2 \in LaidOut :
          /\ l1 < l2
          /\ sprite[l1].width * sprite[l1].height > 0
          /\ sprite[l2].width * sprite[l2].height > 0
          /\ Planned(l2).sprite_offset = Planned(l1).mv_offset + 2

(* ------------------------------ C8 ------------------------------------- *)
ZeroArea(l) == sprite[l].width = 0 \/ sprite[l].height = 0

\* C8 as claimed: a level of zero area (width 0 or height 0) has payload size
\* 0 and map-value size 0, and the running offset does not advance.
C8_Original ==
    LayoutComplete => \A l \in LaidOut :
        ZeroArea(l) =>
            /\ Planned(l).mv_offset - Planned(l).sprite_offset = 0
            /\ OffsetAfter(l) - Planned(l).mv_offset = 0
            /\ OffsetAfter(l) = Planned(l).sprite_offset

\* C8 amended: a level of height 0 has payload size 0 and map-value size 0 and
\* does not advance the running offset; a level of width 0 and height h > 0
\* has map-value size 0 but a payload of 8*h bytes, the two run-count slots of
\* each of its h rows, both of which are stored as 0.
C8_ZeroArea ==
    LayoutComplete => \A l \in LaidOut :
        /\ sprite[l].height = 0 =>
              /\ Planned(l).mv_offset - Planned(l).sprite_offset = 0
              /\ OffsetAfter(l) - Planned(l).mv_offset = 0
              /\ OffsetAfter(l) = Planned(l).sprite_offset
        /\ (sprite[l].width = 0 /\ sprite[l].height > 0) =>
              /\ Planned(l).mv_offset - Planned(l).sprite_offset = 8 * sprite[l].height
              /\ OffsetAfter(l) - Planned(l).mv_offset = 0
              /\ Done => \A row \in 0..(sprite[l].height - 1) :
                            LeftCount(l, row) = 0 /\ RightCount(l, row) = 0

\* A finished sprite with a level of width 0 and two rows, and a level of
\* height 0.
C8_Witness ==
    /\ Done
    /\ \E l1, l2 \in zoom_min..zoom_max :
          /\ sprite[l1].width = 0 /\ sprite[l1].height = 2
          /\ sprite[l2].width > 0 /\ sprite[l2].height = 0

(* ------------------------------ C9 ------------------------------------- *)
\* C9 as claimed: min <= max; a font glyph packs ZoomLevel::Min only; another
\* sprite packs [gui.zoom_min, gui.zoom_max], a single configured level being
\* widened to ZoomLevel::Min..ZoomLevel::Max.
C9_Original ==
    LayoutComplete =>
        /\ zoom_min <= zoom_max
        /\ sprite_type = "Font" => (zoom_min = ZoomLevelMin /\ zoom_max = ZoomLevelMin)
        /\ (sprite_type # "Font" /\ gui_zoom_min # gui_zoom_max) =>
              (zoom_min = gui_zoom_min /\ zoom_max = gui_zoom_max)
        /\ (sprite_type # "Font" /\ gui_zoom_min = gui_zoom_max) =>
              (zoom_min = ZoomLevelMin /\ zoom_max = ZoomLevelMax)

\* C9 amended: min <= max; a font glyph packs ZoomLevel::Min only; another
\* sprite packs [gui.zoom_min, gui.zoom_max], a single configured level being
\* widened upwards only, to gui.zoom_min..ZoomLevel::Max.
C9_ZoomRange ==
    LayoutComplete =>
        /\ zoom_min <= zoom_max
        /\ sprite_type = "Font" => (zoom_min = ZoomLevelMin /\ zoom_max = ZoomLevelMin)
        /\ (sprite_type # "Font" /\ gui_zoom_min # gui_zoom_max) =>
              (zoom_min = gui_zoom_min /\ zoom_max = gui_zoom_max)
        /\ (sprite_type # "Font" /\ gui_zoom_min = gui_zoom_max) =>
              (zoom_min = gui_zoom_min /\ zoom_max = ZoomLevelMax)
        /\ Done => \A l \in ZoomLevels :
              (l \in zoom_min..zoom_max) \/ dst_sprite.sd.infos[l] = ZeroInfo

\* A sprite packed under a single configured level above ZoomLevel::Min.
C9_Witness ==
    /\ Done
    /\ sprite_type # "Font"
    /\ gui_zoom_min = gui_zoom_max
    /\ gui_zoom_min # ZoomLevelMin
    /\ zoom_min = gui_zoom_min

(* ------------------------------ C10 ------------------------------------ *)
\* C10: the packed sprite is a function of the input alone, whatever the
\* allocated buffer held: no step reads a byte of it that was not written
\* before, and at the end every field of the Sprite, the SpriteData header and
\* every byte of the payload has been written; the header is the one the
\* layout planned, with the flags of the pixels packed.
C10_Deterministic ==
    /\ (pc = "pixel" /\ x = 0) =>
          \A i \in 0..(sprite[z].width - 1) :
              Byte(dst_rgba_line + MetaBytes + SizeofColour * i + OffA) # Uninit
    /\ Done =>
          /\ dst_sprite.height # Uninit /\ dst_sprite.width # Uninit
          /\ dst_sprite.x_offs # Uninit /\ dst_sprite.y_offs # Uninit
          /\ dst_sprite.sd.flags \subseteq {"Translucent", "NoRemap", "NoAnim"}
          /\ \A l \in ZoomLevels :
                /\ dst_sprite.sd.infos[l].sprite_width # Uninit
                /\ dst_sprite.sd.infos[l].sprite_offset # Uninit
                /\ dst_sprite.sd.infos[l].mv_offset # Uninit
                /\ dst_sprite.sd.infos[l].sprite_line_size # Uninit
          /\ dst_sprite.sd = sd
          /\ \A i \in DOMAIN dst_sprite.data : Byte(i) \in 0..255
          /\ DOMAIN dst_sprite.data = 0..(all_sprites_size - 1)

\* A finished sprite with payload, part of it from a transparent pixel.
C10_Witness ==
    /\ Done
    /\ all_sprites_size > 8
    /\ \E px \in AllSourcePixels : px.a = 0
    /\ \E px \in AllSourcePixels : px.a # 0

(* ------------------------------ C11 ------------------------------------ *)
\* The collection holds one row of two pixels, a transparent one and then the
\* opaque pixel {10, 20, 30, 255} without recolour index, at level l, and no
\* other pixel.
ScenarioRow(l) ==
    /\ l \in zoom_min..zoom_max
    /\ sprite[l].width = 2
    /\ sprite[l].height = 1
    /\ Len(sprite[l].data) = 2
    /\ sprite[l].data[1].a = 0
    /\ sprite[l].data[2] = Pixel(10, 20, 30, 255, 0)
    /\ \A o \in ZoomLevels : o # l => Len(sprite[o].data) = 0

\* C11: after Encode, every source pixel with nonzero alpha and recolour index
\* 0 has its r, g, b, a copied into the colour cell and the map-value cell
\* {0, DEFAULT_BRIGHTNESS}; and the row [transparent, opaque {10,20,30,255}
\* without recolour index], alone in the collection, is packed with left count
\* 1, right count 0, a zero map-value cell for the first pixel, and the flags
\* NoRemap and NoAnim without Translucent.
C11_VerbatimCopy ==
    Done =>
        /\ \A l \in ZoomLevels : \A k \in PackedPixels(l) :
              LET px == sprite[l].data[k]
              IN  (px.a # 0 /\ px.m = 0) =>
                      /\ Byte(ColourAt(l, k) + OffR) = px.r
                      /\ Byte(ColourAt(l, k) + OffG) = px.g
                      /\ Byte(ColourAt(l, k) + OffB) = px.b
                      /\ Byte(ColourAt(l, k) + OffA) = px.a
                      /\ Byte(MapValueAt(l, k) + OffM) = 0
                      /\ Byte(MapValueAt(l, k) + OffV) = DEFAULT_BRIGHTNESS
        /\ \A l \in ZoomLevels :
              ScenarioRow(l) =>
                  /\ LeftCount(l, 0) = 1
                  /\ RightCount(l, 0) = 0
                  /\ Byte(ColourAt(l, 2) + OffR) = 10
                  /\ Byte(ColourAt(l, 2) + OffG) = 20
                  /\ Byte(ColourAt(l, 2) + OffB) = 30
                  /\ Byte(ColourAt(l, 2) + OffA) = 255
                  /\ Byte(MapValueAt(l, 1) + OffM) = 0
                  /\ Byte(MapValueAt(l, 1) + OffV) = 0
                  /\ Byte(MapValueAt(l, 2) + OffM) = 0
                  /\ Byte(MapValueAt(l, 2) + OffV) = DEFAULT_BRIGHTNESS
                  /\ dst_sprite.sd.flags = {"NoRemap", "NoAnim"}

\* The scenario row, packed.
C11_Witness ==
    /\ Done
    /\ \E l \in ZoomLevels : ScenarioRow(l) /\ sprite[l].data[1] = Pixel(0, 0, 0, 0, 0)

====
